---- MODULE Spec2Model ----
(***************************************************************************)
(* Forward-time simulations that record ancestry in a tskit table          *)
(* collection: the haploid_moran and overlapping_generations binaries,     *)
(* the diploid library and the unique-seed generator.                      *)
(*                                                                         *)
(* Node ids are 0-based as in the code; node id n is nodes[n + 1].         *)
(* Genome positions and the f64 parameters live on integer grids.          *)
(***************************************************************************)
EXTENDS Integers, Sequences, FiniteSets, TLC

\* ---------------------------------------------------------------- bounds
MaxPopMoran == 3
MaxStepsMoran == 3
MaxPopOG == 2
MaxStepsOG == 2
MaxInterval == 2
\* the node table of an overlapping_generations run is explored up to
\* this many rows
MaxNodesOG == 8
\* uniform draws in [0,1) and psurvival are multiples of 1/UnitDen
UnitDen == 2
MaxGenomeLength == 2
MaxPopLib == 2
MaxStepsLib == 2
MaxNodesLib == 8
\* interarrival lengths drawn in one crossover call
MaxXoverDraws == 3
MaxInitialSeed == 1
MaxSeeds == 3
MaxSeedValue == 2
MaxSamples == 5
MaxReps == 3
MaxThreads == 3
MaxXoverLength == 3
MaxOps == 4

\* ------------------------------------------------------ program constants
\* tskit::TSK_NULL
TSK_NULL == -1
\* haploid_moran.rs: tskit::TableCollection::new(1.0)
MoranGenomeLength == 1
\* haploid_moran.rs: if step % 100 == 0
MoranSimplifyInterval == 100

\* ------------------------------------------------------------- utilities
\* an f64 is a numerator over UnitDen, or NaN
F64(n) == [nan |-> FALSE, num |-> n]

NaN == [nan |-> TRUE, num |-> 0]

\* the values rng.gen::<f64>() returns
UnitDraws == {F64(n) : n \in 0..(UnitDen - 1)}

\* f64::partial_cmp
PartialCmp(a, b) ==
    IF a.nan \/ b.nan THEN "None"
    ELSE IF a.num < b.num THEN "Less"
    ELSE IF a.num > b.num THEN "Greater"
    ELSE "Equal"

\* x.partial_cmp(&0.5) == Some(Less)
BelowHalf(x) == 2 * x.num < UnitDen

\* ----------------------------------------------------- table collection
\* tskit::TableCollection::new(sequence_length)
NewTables(len) == [sequence_length |-> len, nodes |-> <<>>, edges |-> <<>>]

\* the id add_node returns: the row count before the push
NextNodeId(t) == Len(t.nodes)

\* tables.add_node(0, time, TSK_NULL, TSK_NULL)
add_node(t, time) == [t EXCEPT !.nodes = Append(@, time)]

\* tables.add_edge(left, right, parent, child): appended as given, nothing
\* is validated at insertion
add_edge(t, left, right, parent, child) ==
    [t EXCEPT !.edges = Append(@, [left |-> left, right |-> right,
                                   parent |-> parent, child |-> child])]

ValidId(t, id) == id >= 0 /\ id < Len(t.nodes)

NodeTime(t, id) == t.nodes[id + 1]

\* the integrity checks tskit makes of every edge row before it sorts or
\* simplifies: ids in range, 0 <= left < right <= sequence_length, and the
\* parent strictly older than the child
EdgeRowOk(t, e) ==
    /\ ValidId(t, e.parent)
    /\ ValidId(t, e.child)
    /\ 0 <= e.left
    /\ e.left < e.right
    /\ e.right <= t.sequence_length
    /\ NodeTime(t, e.parent) > NodeTime(t, e.child)

TableIntegrityOk(t) == \A i \in 1..Len(t.edges) : EdgeRowOk(t, t.edges[i])

\* sort key of an edge: (time of parent, parent, child, left)
EdgeBefore(t, e, f) ==
    LET te == NodeTime(t, e.parent)
        tf == NodeTime(t, f.parent)
    IN  \/ te < tf
        \/ te = tf /\ e.parent < f.parent
        \/ te = tf /\ e.parent = f.parent /\ e.child < f.child
        \/ te = tf /\ e.parent = f.parent /\ e.child = f.child /\ e.left < f.left

RECURSIVE SortRows(_, _, _)
SortRows(t, rows, I) ==
    IF I = {} THEN <<>>
    ELSE LET i == CHOOSE k \in I : \A j \in I \ {k} :
                      \/ EdgeBefore(t, rows[k], rows[j])
                      \/ (~EdgeBefore(t, rows[j], rows[k]) /\ k < j)
         IN  <<rows[i]>> \o SortRows(t, rows, I \ {i})

\* tables.full_sort(TableSortOptions::default()) on a table that passed the
\* integrity check
full_sort(t) == [t EXCEPT !.edges = SortRows(t, t.edges, DOMAIN t.edges)]

\* ---------------------------------------------------------- simplify
NodeIds(t) == 0..(Len(t.nodes) - 1)

\* no child has two parents over one cell
NoContradictoryChildren(t) ==
    \A i, j \in 1..Len(t.edges) :
        (i # j /\ t.edges[i].child = t.edges[j].child)
            => (t.edges[i].right <= t.edges[j].left
                \/ t.edges[j].right <= t.edges[i].left)

NoDuplicates(s) == \A i, j \in 1..Len(s) : i # j => s[i] # s[j]

\* what makes tables.simplify(samples, ..) return Err
SimplifyInputOk(t, samples) ==
    /\ TableIntegrityOk(t)
    /\ NoContradictoryChildren(t)
    /\ \A i \in 1..Len(samples) : ValidId(t, samples[i])
    /\ NoDuplicates(samples)

RECURSIVE Repeat(_, _)
\* n copies of v
Repeat(v, n) == IF n = 0 THEN <<>> ELSE Append(Repeat(v, n - 1), v)

RECURSIVE Iota(_)
\* <<0, 1, .., n - 1>>
Iota(n) == IF n = 0 THEN <<>> ELSE Append(Iota(n - 1), n - 1)

\* The marginal tree at cell c, one row per node (node u at index u + 1).
\* par: the parent of each node at c, read off the edges from row i on
RECURSIVE ParentRow(_, _, _, _)
ParentRow(t, c, i, par) ==
    IF i > Len(t.edges) THEN par
    ELSE ParentRow(t, c, i + 1,
             IF t.edges[i].left <= c /\ c < t.edges[i].right
             THEN [par EXCEPT ![t.edges[i].child + 1] = t.edges[i].parent]
             ELSE par)

\* rel with n and its ancestors marked
RECURSIVE MarkUp(_, _, _)
MarkUp(par, rel, n) ==
    IF n = TSK_NULL THEN rel
    ELSE IF rel[n + 1] THEN rel
    ELSE MarkUp(par, [rel EXCEPT ![n + 1] = TRUE], par[n + 1])

\* rel: the nodes on the path from some sample to its root
RECURSIVE MarkSamples(_, _, _, _)
MarkSamples(par, rel, samples, i) ==
    IF i > Len(samples) THEN rel
    ELSE MarkSamples(par, MarkUp(par, rel, samples[i]), samples, i + 1)

\* cnt: how many children with samples below them each node has
RECURSIVE CountLineages(_, _, _, _)
CountLineages(par, rel, cnt, u) ==
    IF u >= Len(par) THEN cnt
    ELSE CountLineages(par, rel,
             IF rel[u + 1] /\ par[u + 1] # TSK_NULL
             THEN [cnt EXCEPT ![par[u + 1] + 1] = @ + 1]
             ELSE cnt,
             u + 1)

\* the nodes where two sample lineages meet
RECURSIVE CoalRow(_, _)
CoalRow(cnt, u) ==
    IF u = 0 THEN <<>> ELSE Append(CoalRow(cnt, u - 1), cnt[u] >= 2)

\* the nodes that stay at this cell: the samples and the nodes where two
\* sample lineages meet (SimplificationOptions::empty() keeps no unary node
\* and no input root)
RECURSIVE KeptRow(_, _, _)
KeptRow(cnt, isSample, u) ==
    IF u = 0 THEN <<>>
    ELSE Append(KeptRow(cnt, isSample, u - 1), isSample[u] \/ cnt[u] >= 2)

RECURSIVE NearestKept(_, _, _)
NearestKept(par, kept, n) ==
    IF n = TSK_NULL THEN TSK_NULL
    ELSE IF kept[n + 1] THEN n
    ELSE NearestKept(par, kept, par[n + 1])

\* the parent each kept node has in the reduced tree
RECURSIVE UpRow(_, _, _)
UpRow(par, kept, u) ==
    IF u = 0 THEN <<>>
    ELSE Append(UpRow(par, kept, u - 1),
                IF kept[u] THEN NearestKept(par, kept, par[u]) ELSE TSK_NULL)

CellViewOf(par, rel, cnt, isSample) ==
    [coal |-> CoalRow(cnt, Len(par)),
     kept |-> KeptRow(cnt, isSample, Len(par)),
     par |-> par]

CellView(t, samples, isSample, c) ==
    LET n == Len(t.nodes)
        par == ParentRow(t, c, 1, Repeat(TSK_NULL, n))
        rel == MarkSamples(par, Repeat(FALSE, n), samples, 1)
        v == CellViewOf(par, rel, CountLineages(par, rel, Repeat(0, n), 0),
                        isSample)
    IN  [coal |-> v.coal, kept |-> v.kept, up |-> UpRow(par, v.kept, n)]

RECURSIVE CellViews(_, _, _, _)
CellViews(t, samples, isSample, c) ==
    IF c = 0 THEN <<>>
    ELSE Append(CellViews(t, samples, isSample, c - 1),
                CellView(t, samples, isSample, c - 1))

RECURSIVE SampleFlags(_, _, _)
SampleFlags(flags, samples, i) ==
    IF i > Len(samples) THEN flags
    ELSE SampleFlags([flags EXCEPT ![samples[i] + 1] = TRUE], samples, i + 1)

RECURSIVE OrderByTimeThenId(_, _)
OrderByTimeThenId(t, U) ==
    IF U = {} THEN <<>>
    ELSE LET u == CHOOSE x \in U : \A y \in U \ {x} :
                      \/ NodeTime(t, x) < NodeTime(t, y)
                      \/ (NodeTime(t, x) = NodeTime(t, y) /\ x < y)
         IN  <<u>> \o OrderByTimeThenId(t, U \ {u})

\* the id map: order[i] becomes node i - 1, every other node TSK_NULL
RECURSIVE NewIds(_, _, _)
NewIds(idmap, order, i) ==
    IF i > Len(order) THEN idmap
    ELSE NewIds([idmap EXCEPT ![order[i] + 1] = i - 1], order, i + 1)

\* the first cell after c where node u has another parent than at c, or none
RECURSIVE RunEnd(_, _, _, _)
RunEnd(view, u, c, d) ==
    IF d > Len(view) THEN d - 1
    ELSE IF view[d].up[u + 1] # view[c + 1].up[u + 1] THEN d - 1
    ELSE RunEnd(view, u, c, d + 1)

\* the edge rows of the output, node by node and cell by cell, abutting
\* edges of one parent and child squashed into one
RECURSIVE OutRows(_, _, _, _, _)
OutRows(view, idmap, u, c, rows) ==
    IF u >= Len(idmap) THEN rows
    ELSE IF c >= Len(view) THEN OutRows(view, idmap, u + 1, 0, rows)
    ELSE IF /\ view[c + 1].up[u + 1] # TSK_NULL
            /\ (c = 0 \/ view[c].up[u + 1] # view[c + 1].up[u + 1])
    THEN OutRows(view, idmap, u, c + 1,
                 Append(rows, [left |-> c,
                               right |-> RunEnd(view, u, c, c + 2),
                               parent |-> idmap[view[c + 1].up[u + 1] + 1],
                               child |-> idmap[u + 1]]))
    ELSE OutRows(view, idmap, u, c + 1, rows)

RECURSIVE NodeRows(_, _, _)
NodeRows(t, order, i) ==
    IF i = 0 THEN <<>>
    ELSE Append(NodeRows(t, order, i - 1), NodeTime(t, order[i]))

SimplifyOutputOf(t, samples, isSample, view) ==
    LET ids == NodeIds(t)
        coal == {u \in ids : ~isSample[u + 1]
                             /\ \E c \in 1..Len(view) : view[c].coal[u + 1]}
        order == samples \o OrderByTimeThenId(t, coal)
        idmap == NewIds(Repeat(TSK_NULL, Len(t.nodes)), order, 1)
        nt == [sequence_length |-> t.sequence_length,
               nodes |-> NodeRows(t, order, Len(order)),
               edges |-> <<>>]
        rows == OutRows(view, idmap, 0, 0, <<>>)
    IN  [tables |-> [nt EXCEPT !.edges = SortRows(nt, rows, DOMAIN rows)],
         idmap |-> idmap]

\* tables.simplify(&samples, SimplificationOptions::empty(), true) on an
\* input that passes its checks; the true asks for the id map: the new
\* tables and the id map
\* (old id -> new id, TSK_NULL for a removed node)
SimplifyOutput(t, samples) ==
    SimplifyOutputOf(t, samples,
        SampleFlags(Repeat(FALSE, Len(t.nodes)), samples, 1),
        CellViews(t, samples,
                  SampleFlags(Repeat(FALSE, Len(t.nodes)), samples, 1),
                  t.sequence_length))

\* ------------------------------------------------------------------ state
VARIABLES
    prog,      \* which entry point runs: "moran", "og", ...
    pc,        \* where the run is
    params,    \* the options of the run
    tables,    \* the run's TableCollection
    alive,     \* the run's alive vector of node ids
    todo,      \* iterations the generation loop has left; the next one
               \* runs with step = todo - 1
    parents,   \* the Vec<Parents> a caller of the diploid library holds
    stdrng,    \* the values StdRng::seed_from_u64(initial_seed) has produced
               \* so far; a generator is a function of its seed, so a later
               \* generator made from the same seed produces them again
    seedcall,  \* the locals of the running make_unique_seeds call
    returned,  \* the vectors the finished make_unique_seeds calls returned
    seeds,     \* the Vec<u64> of replicate seeds main holds
    workers,   \* the spawned threads in the order of handles: what each was
               \* given, how many of its replicates it has finished, and
               \* whether it runs, has returned or has panicked
    files,     \* the output artifacts written so far
    mainst,    \* the locals of main's run_threaded or run_from_seeds call
    drawn,     \* the values the iteration in progress has drawn from rng
    calls      \* the calls made on the table once the generation loop is
               \* over, in order

\* the state of make_unique_seeds
seeding == <<stdrng, seedcall, returned>>

\* the state of main and its threads
threading == <<seeds, workers, files, mainst>>

\* what the two binaries' simulation functions never touch
aux == <<parents, seeding, threading>>

\* no make_unique_seeds call
NoSeeding ==
    /\ stdrng = <<>>
    /\ seedcall = [pos |-> 0, rv |-> <<>>, used_seeds |-> {}, repseed |-> 0]
    /\ returned = <<>>

\* no replicate driver
NoThreading ==
    /\ seeds = <<>>
    /\ workers = <<>>
    /\ files = {}
    /\ mainst = [repid |-> 0, joined |-> 0, idx |-> 0]

\* no iteration in progress
NoDraws == <<>>

vars == <<prog, pc, params, tables, alive, todo, aux, drawn, calls>>

\* the value of step in the iteration being run: (0..nsteps).rev()
step == todo - 1

\* RemapAlive with the remap loop left out: alive keeps the ids it had
RemapAliveSkipped(a, idmap) == a

RECURSIVE RemapFrom(_, _, _)
\* a with the entries from the i-th on replaced by their new ids
RemapFrom(a, idmap, i) ==
    IF i > Len(a) THEN a
    ELSE RemapFrom([a EXCEPT ![i] = idmap[a[i] + 1]], idmap, i + 1)

\* for a in alive.iter_mut() { *a = idmap[*a as usize]; }
RemapAlive(a, idmap) == RemapFrom(a, idmap, 1)

\* an index expression idmap[*a as usize] or alive[..] that is in bounds
IndexOk(s, i) == i >= 0 /\ i < Len(s)

\* ----------------------------------------------------------- haploid_moran
MoranParams ==
    {[popsize |-> n, nsteps |-> k, xovers |-> 0, psurvival |-> F64(0),
      genome_length |-> MoranGenomeLength,
      simplification_interval |-> MoranSimplifyInterval] :
        n \in 1..MaxPopMoran, k \in 0..MaxStepsMoran}
    \cup
    \* one run long enough to simplify inside the loop (at step 100)
    {[popsize |-> 1, nsteps |-> MoranSimplifyInterval + 1, xovers |-> 0,
      psurvival |-> F64(0), genome_length |-> MoranGenomeLength,
      simplification_interval |-> MoranSimplifyInterval]}

InitMoran ==
    /\ prog = "moran"
    /\ pc = "start"
    /\ params \in MoranParams
    /\ tables = NewTables(0)
    /\ alive = <<>>
    /\ todo = 0
    /\ parents = <<>>
    /\ drawn = NoDraws
    /\ calls = <<>>
    /\ NoSeeding
    /\ NoThreading

\* AddFounders with forward time: the n nodes stamped 0, not nsteps
AddFoundersAtZero(t, n, time) == [t EXCEPT !.nodes = t.nodes \o Repeat(0, n)]

RECURSIVE AddFounders(_, _, _)
\* n founder nodes at time nsteps
AddFounders(t, n, time) ==
    IF n = 0 THEN t ELSE AddFounders(add_node(t, time), n - 1, time)

\* moran, up to the generation loop: the table and popsize founders
MoranFounders ==
    /\ prog = "moran" /\ pc = "start"
    /\ tables' = AddFounders(NewTables(MoranGenomeLength), params.popsize,
                             params.nsteps)
    /\ alive' = Iota(params.popsize)
    /\ todo' = params.nsteps
    /\ pc' = IF params.nsteps > 0 THEN "birth" ELSE "return"
    /\ UNCHANGED <<aux, prog, drawn, calls, params>>

\* MoranBirthTables with the birth stamped one step too old (a loop over
\* 1..=nsteps instead of 0..nsteps)
MoranBirthTablesLate(t, a, time, replace) ==
    add_edge(add_node(t, time + 1), 0, MoranGenomeLength, a[replace + 1],
             NextNodeId(t))

\* MoranBirthTables with parent and child of the edge the wrong way round
MoranBirthTablesSwapped(t, a, time, replace) ==
    add_edge(add_node(t, time), 0, MoranGenomeLength, NextNodeId(t),
             a[replace + 1])

\* the tables after the birth of the if dead != replace branch
MoranBirthTables(t, a, time, replace) ==
    add_edge(add_node(t, time), 0, MoranGenomeLength, a[replace + 1],
             NextNodeId(t))

\* alive[dead as usize] = new_birth
MoranReplace(a, dead, new_birth) == [a EXCEPT ![dead + 1] = new_birth]

\* the assert! between add_node and add_edge
MoranAssertOk(t, a, time, replace) ==
    /\ ValidId(t, a[replace + 1])
    /\ time < NodeTime(t, a[replace + 1])

\* MoranBirthDeath without the if dead != replace: a birth in every step
MoranBirthDeathAlways(dead, replace) ==
    /\ prog = "moran" /\ pc = "birth"
    /\ IF MoranAssertOk(tables, alive, step, replace)
       THEN /\ tables' = MoranBirthTables(tables, alive, step, replace)
            /\ alive' = MoranReplace(alive, dead, NextNodeId(tables))
            /\ pc' = "simplify"
       ELSE /\ pc' = "panic"
            /\ UNCHANGED <<tables, alive>>
    /\ drawn' = [dead |-> dead, replace |-> replace]
    /\ UNCHANGED <<aux, prog, calls, params, todo>>

\* one iteration of moran's loop up to the if step % 100 == 0
MoranBirthDeath(dead, replace) ==
    /\ prog = "moran" /\ pc = "birth"
    /\ IF dead = replace
       THEN /\ pc' = "simplify"
            /\ UNCHANGED <<tables, alive>>
       ELSE IF MoranAssertOk(tables, alive, step, replace)
       THEN /\ tables' = MoranBirthTables(tables, alive, step, replace)
            /\ alive' = MoranReplace(alive, dead, NextNodeId(tables))
            /\ pc' = "simplify"
       ELSE /\ pc' = "panic"
            /\ UNCHANGED <<tables, alive>>
    /\ drawn' = [dead |-> dead, replace |-> replace]
    /\ UNCHANGED <<aux, prog, calls, params, todo>>

\* whether the iteration sorts and simplifies
SimplifyDue(s, interval) == s % interval = 0

\* full_sort, simplify against alive, remap alive; any Err panics
SortSimplifyRemapOf(t, a) ==
    IF /\ SimplifyInputOk(t, a)
       /\ \A i \in 1..Len(a) : IndexOk(t.nodes, a[i])
    THEN LET out == SimplifyOutput(full_sort(t), a)
         IN  [end |-> "ok", tables |-> out.tables,
              alive |-> RemapAlive(a, out.idmap)]
    ELSE [end |-> "panic", tables |-> t, alive |-> a]

\* the sort and simplification of an iteration, and on to the next
\* iteration (at loop) or out of the loop
SortSimplifyRemap(loop) ==
    LET out == SortSimplifyRemapOf(tables, alive)
    IN  /\ tables' = out.tables
        /\ alive' = out.alive
        /\ pc' = IF out.end # "ok" THEN "panic"
                 ELSE IF todo > 1 THEN loop ELSE "return"
        /\ todo' = IF out.end = "ok" THEN todo - 1 ELSE todo

\* the rest of the iteration: if step % 100 == 0 { sort, simplify, remap }
MoranSimplify ==
    /\ prog = "moran" /\ pc = "simplify"
    /\ IF SimplifyDue(step, MoranSimplifyInterval)
       THEN SortSimplifyRemap("birth")
       ELSE /\ pc' = IF todo > 1 THEN "birth" ELSE "return"
            /\ todo' = todo - 1
            /\ UNCHANGED <<tables, alive>>
    /\ drawn' = NoDraws
    /\ UNCHANGED <<aux, prog, calls, params>>

\* what finalise_tables_and_output calls on the table it is given
FinaliseCalls == <<"add_provenance", "build_index", "dump">>

\* main after moran returns: finalise_tables_and_output
MoranFinalise ==
    /\ prog = "moran" /\ pc = "return"
    /\ calls' = calls \o FinaliseCalls
    /\ pc' = "done"
    /\ UNCHANGED <<aux, prog, drawn, params, tables, alive, todo>>

NextMoran ==
    \/ MoranFounders
    \/ /\ prog = "moran"
       /\ \E dead, replace \in 0..(params.popsize - 1) :
              MoranBirthDeath(dead, replace)
    \/ MoranSimplify
    \/ MoranFinalise

SpecMoran == InitMoran /\ [][NextMoran]_vars

\* ------------------------------------------------- overlapping_generations
\* ProgramOptions::validate: TRUE for Ok(()), FALSE for Err(BadParameter)
validate(p) ==
    /\ PartialCmp(p.psurvival, F64(0)) # "Less"
    /\ PartialCmp(p.psurvival, F64(UnitDen)) \in {"Less", "None"}

PSurvivalValues == {F64(n) : n \in -1..(UnitDen + 1)} \cup {NaN}

OGParams ==
    {[popsize |-> n, nsteps |-> k, xovers |-> x, psurvival |-> ps,
      genome_length |-> len, simplification_interval |-> iv] :
        n \in 1..MaxPopOG, k \in 0..MaxStepsOG, x \in {0, 1},
        ps \in PSurvivalValues, len \in {MaxGenomeLength},
        iv \in 0..MaxInterval}

InitOG ==
    /\ prog = "og"
    /\ pc = "start"
    /\ params \in OGParams
    /\ tables = NewTables(0)
    /\ alive = <<>>
    /\ todo = 0
    /\ parents = <<>>
    /\ drawn = NoDraws
    /\ calls = <<>>
    /\ NoSeeding
    /\ NoThreading

\* ProgramOptions::new: options.validate().unwrap()
OGOptions ==
    /\ prog = "og" /\ pc = "start"
    /\ pc' = IF validate(params) THEN "founders" ELSE "rejected"
    /\ UNCHANGED <<aux, prog, drawn, calls, params, tables, alive, todo>>

\* overlapping_generations up to the generation loop: 2 founder nodes per
\* individual, alive = [0, 1, .., 2 * popsize - 1]
OGFounders ==
    /\ prog = "og" /\ pc = "founders"
    /\ tables' = AddFounders(NewTables(params.genome_length),
                             2 * params.popsize, params.nsteps)
    /\ alive' = Iota(2 * params.popsize)
    /\ todo' = params.nsteps
    /\ pc' = IF params.nsteps > 0 THEN "reproduce" ELSE "return"
    /\ UNCHANGED <<aux, prog, drawn, calls, params>>

\* the death draws: xs[i + 1] is the uniform draw of individual i; the
\* result is the index field of each Replacement, in push order
RECURSIVE Deaths(_, _, _)
Deaths(xs, psurvival, i) ==
    IF i >= Len(xs) THEN <<>>
    ELSE (IF PartialCmp(xs[i + 1], psurvival) = "Greater" THEN <<i>> ELSE <<>>)
         \o Deaths(xs, psurvival, i + 1)

\* the k-th Replacement (k from 1) of a step that starts with base nodes
Replacement(index, base, k) ==
    [index |-> index, node1 |-> base + 2 * (k - 1),
     node2 |-> base + 2 * (k - 1) + 1]

RECURSIVE ReplacementsTo(_, _, _)
ReplacementsTo(dead, base, k) ==
    IF k = 0 THEN <<>>
    ELSE Append(ReplacementsTo(dead, base, k - 1),
                Replacement(dead[k], base, k))

\* the replacements vector after the death loop
Replacements(dead, base) == ReplacementsTo(dead, base, Len(dead))

\* the parent node an offspring node gets its edge from
GameteNode(a, parent_index, x) ==
    IF BelowHalf(x) THEN a[2 * parent_index + 2] ELSE a[2 * parent_index + 1]

\* the edges of the k-th and later replacements; picks[d] and coins[d] are
\* the two draws of the d-th offspring node of the step
RECURSIVE RecordEdges(_, _, _, _, _, _)
RecordEdges(t, a, reps, picks, coins, d) ==
    IF d > 2 * Len(reps) THEN t
    ELSE LET rep == reps[(d + 1) \div 2]
             offspring == IF d % 2 = 1 THEN rep.node1 ELSE rep.node2
         IN  RecordEdges(add_edge(t, 0, t.sequence_length,
                                  GameteNode(a, picks[d], coins[d]), offspring),
                         a, reps, picks, coins, d + 1)

\* ReplaceAlive that takes the position of rep in replacements for its index
RECURSIVE ReplaceAliveByRank(_, _, _)
ReplaceAliveByRank(a, reps, k) ==
    IF k > Len(reps) THEN a
    ELSE ReplaceAliveByRank([a EXCEPT ![2 * (k - 1) + 1] = reps[k].node1,
                                      ![2 * (k - 1) + 2] = reps[k].node1],
                            reps, k + 1)

\* for rep in &replacements { alive[2 * rep.index] = ..; alive[2 * rep.index + 1] = .. }
RECURSIVE ReplaceAlive(_, _, _)
ReplaceAlive(a, reps, k) ==
    IF k > Len(reps) THEN a
    ELSE ReplaceAlive([a EXCEPT ![2 * reps[k].index + 1] = reps[k].node1,
                                ![2 * reps[k].index + 2] = reps[k].node1],
                      reps, k + 1)

\* how many offspring nodes the step makes: each takes one parent pick and
\* one gamete draw (none when the first comparison already panics)
OGDrawsNeeded(xs) ==
    IF params.psurvival.nan THEN 0
    ELSE 2 * Len(Deaths(xs, params.psurvival, 0))

\* OGReproduce with the two loops over replacements the other way round:
\* alive is overwritten before the parents are read from it
OGReproduceReplaceFirst(xs, picks, coins) ==
    /\ prog = "og" /\ pc = "reproduce"
    /\ IF \E i \in 1..Len(xs) : PartialCmp(xs[i], params.psurvival) = "None"
       THEN /\ pc' = "panic"
            /\ UNCHANGED <<tables, alive>>
       ELSE LET dead == Deaths(xs, params.psurvival, 0)
                reps == Replacements(dead, NextNodeId(tables))
                born == AddFounders(tables, 2 * Len(dead), step)
            IN  /\ alive' = ReplaceAlive(alive, reps, 1)
                /\ tables' = RecordEdges(born, alive', reps, picks, coins, 1)
                /\ pc' = "simplify"
    /\ drawn' = [xs |-> xs, picks |-> picks, coins |-> coins]
    /\ UNCHANGED <<aux, prog, calls, params, todo>>

\* one iteration of the generation loop up to the if step % interval == 0:
\* death draws and offspring nodes, parents and edges, replacement
OGReproduce(xs, picks, coins) ==
    /\ prog = "og" /\ pc = "reproduce"
    /\ IF \E i \in 1..Len(xs) : PartialCmp(xs[i], params.psurvival) = "None"
       THEN /\ pc' = "panic"
            /\ UNCHANGED <<tables, alive>>
       ELSE LET dead == Deaths(xs, params.psurvival, 0)
                reps == Replacements(dead, NextNodeId(tables))
                born == AddFounders(tables, 2 * Len(dead), step)
            IN  /\ tables' = RecordEdges(born, alive, reps, picks, coins, 1)
                /\ alive' = ReplaceAlive(alive, reps, 1)
                /\ pc' = "simplify"
    /\ drawn' = [xs |-> xs, picks |-> picks, coins |-> coins]
    /\ UNCHANGED <<aux, prog, calls, params, todo>>

\* the rest of the iteration: if step % params.simplification_interval == 0
OGSimplify ==
    /\ prog = "og" /\ pc = "simplify"
    /\ IF params.simplification_interval = 0
       THEN /\ pc' = "panic"
            /\ UNCHANGED <<tables, alive, todo>>
       ELSE IF SimplifyDue(step, params.simplification_interval)
       THEN SortSimplifyRemap("reproduce")
       ELSE /\ pc' = IF todo > 1 THEN "reproduce" ELSE "return"
            /\ todo' = todo - 1
            /\ UNCHANGED <<tables, alive>>
    /\ drawn' = NoDraws
    /\ UNCHANGED <<aux, prog, calls, params>>

\* what overlapping_generations calls on the table after its loop
OGReturnCalls == <<"build_index">>

\* tables.build_index() and return, then main's finalise_tables_and_output
OGFinalise ==
    /\ prog = "og" /\ pc = "return"
    /\ calls' = (calls \o OGReturnCalls) \o FinaliseCalls
    /\ pc' = "done"
    /\ UNCHANGED <<aux, prog, drawn, params, tables, alive, todo>>

NextOG ==
    \/ OGOptions
    \/ OGFounders
    \/ /\ prog = "og" /\ pc = "reproduce"
       /\ \E xs \in [1..params.popsize -> UnitDraws] :
           /\ Len(tables.nodes) + OGDrawsNeeded(xs) <= MaxNodesOG
           /\ \E picks \in [1..OGDrawsNeeded(xs) -> 0..(params.popsize - 1)] :
              \E coins \in [1..OGDrawsNeeded(xs) -> UnitDraws] :
                  OGReproduce(xs, picks, coins)
    \/ OGSimplify
    \/ OGFinalise

SpecOG == InitOG /\ [][NextOG]_vars

\* ------------------------------------------------------------ diploid.rs
Diploid(n0, n1) == [node0 |-> n0, node1 |-> n1]

\* death_and_parents: xs[i + 1] is the draw of individual i, picks[k] the
\* two parent indexes drawn for the k-th death; the result is parents
\* after the pushes
RECURSIVE death_and_parents(_, _, _, _, _, _, _)
death_and_parents(a, p, par, xs, picks, index, k) ==
    IF index >= Len(a) THEN par
    ELSE IF PartialCmp(xs[index + 1], p.psurvival) = "Greater"
    THEN death_and_parents(a, p,
             Append(par, [index |-> index,
                          parent0 |-> a[picks[k][1] + 1],
                          parent1 |-> a[picks[k][2] + 1]]),
             xs, picks, index + 1, k + 1)
    ELSE death_and_parents(a, p, par, xs, picks, index + 1, k)

\* how many individuals the draws xs kill
LibDeathCount(xs, p) ==
    Cardinality({i \in 1..Len(xs) :
                    PartialCmp(xs[i], p.psurvival) = "Greater"})

\* mendel: swap the two parental nodes when the draw is below 0.5
mendel(pnodes, x) ==
    IF BelowHalf(x) THEN <<pnodes[2], pnodes[1]>> ELSE pnodes

\* CrossoverLoop without the swap of the two strands after an edge
RECURSIVE CrossoverLoopNoSwap(_, _, _, _, _, _)
CrossoverLoopNoSwap(t, pnodes, offspring_node, lens, k, current_pos) ==
    IF k > Len(lens) THEN t
    ELSE IF current_pos + lens[k] < t.sequence_length
    THEN CrossoverLoopNoSwap(add_edge(t, current_pos, current_pos + lens[k],
                                      pnodes[1], offspring_node),
                             pnodes, offspring_node, lens,
                             k + 1, current_pos + lens[k])
    ELSE add_edge(t, current_pos, t.sequence_length, pnodes[1],
                  offspring_node)

\* the loop of crossover_and_record_edges_details: lens[k] is the k-th
\* interarrival length drawn from exp
RECURSIVE CrossoverLoop(_, _, _, _, _, _)
CrossoverLoop(t, pnodes, offspring_node, lens, k, current_pos) ==
    IF k > Len(lens) THEN t
    ELSE IF current_pos + lens[k] < t.sequence_length
    THEN CrossoverLoop(add_edge(t, current_pos, current_pos + lens[k],
                                pnodes[1], offspring_node),
                       <<pnodes[2], pnodes[1]>>, offspring_node, lens,
                       k + 1, current_pos + lens[k])
    ELSE add_edge(t, current_pos, t.sequence_length, pnodes[1],
                  offspring_node)

\* draw is [x |-> the gamete draw, lens |-> the lengths the loop consumes]
crossover_and_record_edges_details(parent, offspring_node, p, t, draw) ==
    LET pnodes == mendel(<<parent.node0, parent.node1>>, draw.x)
    IN  IF p.xovers = 0
        THEN add_edge(t, 0, t.sequence_length, pnodes[1], offspring_node)
        ELSE CrossoverLoop(t, pnodes, offspring_node, draw.lens, 1, 0)

\* the loop reads exactly the lengths of lens: every one but the last
\* leaves the position short of genome_length, the last one does not
RECURSIVE LoopReadsAll(_, _, _, _)
LoopReadsAll(len, lens, k, current_pos) ==
    IF k > Len(lens) THEN FALSE
    ELSE IF current_pos + lens[k] < len
    THEN LoopReadsAll(len, lens, k + 1, current_pos + lens[k])
    ELSE k = Len(lens)

\* the draws one crossover call can make
CrossoverDraws(p) ==
    IF p.xovers = 0
    THEN {[x |-> x, lens |-> <<>>] : x \in UnitDraws}
    ELSE {[x |-> x, lens |-> lens] :
             x \in UnitDraws,
             lens \in {l \in UNION {[1..n -> 0..p.genome_length] :
                                       n \in 1..MaxXoverDraws} :
                          LoopReadsAll(p.genome_length, l, 1, 0)}}

\* crossover_and_record_edges
crossover_and_record_edges(par, offspring_nodes, p, t, draws) ==
    crossover_and_record_edges_details(par.parent1, offspring_nodes[2], p,
        crossover_and_record_edges_details(par.parent0, offspring_nodes[1],
                                           p, t, draws[1]),
        draws[2])

\* births that registers one node and makes it both nodes of the newborn
RECURSIVE birthsSameNode(_, _, _, _, _, _, _)
birthsSameNode(pars, p, birth_time, t, a, draws, i) ==
    IF i > Len(pars) THEN [tables |-> t, alive |-> a]
    ELSE LET node0 == NextNodeId(t)
             born == add_node(t, birth_time)
         IN  birthsSameNode(pars, p, birth_time,
                            crossover_and_record_edges(pars[i], <<node0, node0>>,
                                                       p, born, draws[i]),
                            [a EXCEPT ![pars[i].index + 1] = Diploid(node0, node0)],
                            draws, i + 1)

\* births from the i-th entry of pars on: the tables and alive it leaves
RECURSIVE births(_, _, _, _, _, _, _)
births(pars, p, birth_time, t, a, draws, i) ==
    IF i > Len(pars) THEN [tables |-> t, alive |-> a]
    ELSE LET node0 == NextNodeId(t)
             node1 == NextNodeId(t) + 1
             born == add_node(add_node(t, birth_time), birth_time)
         IN  births(pars, p, birth_time,
                    crossover_and_record_edges(pars[i], <<node0, node1>>, p,
                                               born, draws[i]),
                    [a EXCEPT ![pars[i].index + 1] = Diploid(node0, node1)],
                    draws, i + 1)

\* samples of diploid::simplify: node0, node1 of every Diploid in order
RECURSIVE DiploidSamples(_)
DiploidSamples(a) ==
    IF a = <<>> THEN <<>>
    ELSE <<Head(a).node0, Head(a).node1>> \o DiploidSamples(Tail(a))

RECURSIVE RemapDiploids(_, _, _)
\* a with the Diploids from the i-th on given their new node ids
RemapDiploids(a, idmap, i) ==
    IF i > Len(a) THEN a
    ELSE RemapDiploids([a EXCEPT ![i] = Diploid(idmap[a[i].node0 + 1],
                                                idmap[a[i].node1 + 1])],
                       idmap, i + 1)

\* diploid::simplify: "ok" with the tables and alive it leaves, "assert"
\* when one of its three assertions fails, "panic" on an Err
simplify(a, t) ==
    LET samples == DiploidSamples(a)
    IN  IF \E i \in 1..Len(a) : a[i].node0 = a[i].node1
        THEN [end |-> "assert", tables |-> t, alive |-> a]
        ELSE IF ~SimplifyInputOk(t, samples)
        THEN [end |-> "panic", tables |-> t, alive |-> a]
        ELSE LET out == SimplifyOutput(full_sort(t), samples)
                 b == RemapDiploids(a, out.idmap, 1)
             IN  IF \E i \in 1..Len(b) :
                        b[i].node0 = TSK_NULL \/ b[i].node1 = TSK_NULL
                 THEN [end |-> "assert", tables |-> t, alive |-> a]
                 ELSE [end |-> "ok", tables |-> out.tables, alive |-> b]

\* ---- a replicate driver over the library (Init, GenerationLoop)
LibParams ==
    {[popsize |-> n, nsteps |-> k, xovers |-> 0, psurvival |-> ps,
      genome_length |-> MaxGenomeLength, simplification_interval |-> iv] :
        n \in 1..MaxPopLib, k \in 1..MaxStepsLib,
        ps \in UnitDraws \cup {NaN}, iv \in 1..MaxInterval}
    \cup
    \* with crossovers: one individual, one step
    {[popsize |-> 1, nsteps |-> 1, xovers |-> 1, psurvival |-> F64(0),
      genome_length |-> MaxGenomeLength, simplification_interval |-> 1]}

InitLib ==
    /\ prog = "lib"
    /\ pc = "start"
    /\ params \in LibParams
    /\ tables = NewTables(0)
    /\ alive = <<>>
    /\ todo = 0
    /\ parents = <<>>
    /\ drawn = NoDraws
    /\ calls = <<>>
    /\ NoSeeding
    /\ NoThreading

LibFounders ==
    /\ prog = "lib" /\ pc = "start"
    /\ tables' = AddFounders(NewTables(params.genome_length),
                             2 * params.popsize, params.nsteps)
    /\ alive' = [i \in 1..params.popsize |->
                    Diploid(2 * (i - 1), 2 * (i - 1) + 1)]
    /\ todo' = params.nsteps
    /\ pc' = "deaths"
    /\ UNCHANGED <<prog, drawn, calls, params, parents, seeding, threading>>

LibDeathAndParents(xs, picks) ==
    /\ prog = "lib" /\ pc = "deaths"
    /\ parents' = death_and_parents(alive, params, <<>>, xs, picks, 0, 1)
    /\ drawn' = [xs |-> xs, picks |-> picks, draws |-> <<>>]
    /\ pc' = "births"
    /\ UNCHANGED <<prog, calls, params, tables, alive, todo, seeding, threading>>

LibBirths(draws) ==
    /\ prog = "lib" /\ pc = "births"
    /\ LET out == births(parents, params, step, tables, alive, draws, 1)
       IN  /\ tables' = out.tables
           /\ alive' = out.alive
    /\ drawn' = [drawn EXCEPT !.draws = draws]
    /\ pc' = "simplify"
    /\ UNCHANGED <<prog, calls, params, todo, parents, seeding, threading>>

LibSimplify ==
    /\ prog = "lib" /\ pc = "simplify"
    /\ IF SimplifyDue(step, params.simplification_interval)
       THEN LET out == simplify(alive, tables)
            IN  /\ tables' = out.tables
                /\ alive' = out.alive
                /\ pc' = IF out.end # "ok" THEN out.end
                         ELSE IF todo > 1 THEN "deaths" ELSE "done"
                /\ todo' = IF out.end = "ok" THEN todo - 1 ELSE todo
       ELSE /\ pc' = IF todo > 1 THEN "deaths" ELSE "done"
            /\ todo' = todo - 1
            /\ UNCHANGED <<tables, alive>>
    /\ drawn' = NoDraws
    /\ UNCHANGED <<prog, calls, params, parents, seeding, threading>>

NextLib ==
    \/ LibFounders
    \/ /\ prog = "lib" /\ pc = "deaths"
       /\ \E xs \in [1..params.popsize -> UnitDraws] :
           /\ Len(tables.nodes) + 2 * LibDeathCount(xs, params) <= MaxNodesLib
           /\ \E picks \in [1..LibDeathCount(xs, params) ->
                              (0..(params.popsize - 1))
                                  \X (0..(params.popsize - 1))] :
                  LibDeathAndParents(xs, picks)
    \/ /\ prog = "lib" /\ pc = "births"
       /\ \E draws \in [1..Len(parents) ->
                          CrossoverDraws(params) \X CrossoverDraws(params)] :
              LibBirths(draws)
    \/ LibSimplify

SpecLib == InitLib /\ [][NextLib]_vars

\* ---- the library's three operations called in any order
OpsParams ==
    {[popsize |-> n, nsteps |-> MaxOps, xovers |-> 0, psurvival |-> F64(0),
      genome_length |-> MaxGenomeLength, simplification_interval |-> 1] :
        n \in 1..MaxPopLib}

\* a population of Diploids with pairwise distinct valid node ids
InitOps ==
    /\ prog = "libops"
    /\ pc = "ready"
    /\ params \in OpsParams
    /\ tables = AddFounders(NewTables(params.genome_length),
                            2 * params.popsize, params.nsteps)
    /\ alive = [i \in 1..params.popsize |->
                   Diploid(2 * (i - 1), 2 * (i - 1) + 1)]
    /\ todo = MaxOps
    /\ parents = <<>>
    /\ drawn = NoDraws
    /\ calls = <<>>
    /\ NoSeeding
    /\ NoThreading

\* death_and_parents(&alive, &params, &mut parents, &mut rng) on the
\* caller's vector as it is or cleared
OpsDeathAndParents(xs, picks, par) ==
    /\ prog = "libops" /\ pc = "ready" /\ todo > 0
    /\ parents' = death_and_parents(alive, params, par, xs, picks, 0, 1)
    /\ drawn' = [xs |-> xs, picks |-> picks, draws |-> <<>>]
    /\ todo' = todo - 1
    /\ UNCHANGED <<prog, pc, calls, params, tables, alive, seeding, threading>>

\* births(&parents, &params, step, &mut tables, &mut alive, &mut rng)
OpsBirths(draws) ==
    /\ prog = "libops" /\ pc = "ready" /\ todo > 0
    /\ LET out == births(parents, params, step, tables, alive, draws, 1)
       IN  /\ tables' = out.tables
           /\ alive' = out.alive
    /\ drawn' = [xs |-> <<>>, picks |-> <<>>, draws |-> draws]
    /\ todo' = todo - 1
    /\ UNCHANGED <<prog, pc, calls, params, parents, seeding, threading>>

\* simplify(&mut alive, &mut tables)
OpsSimplify ==
    /\ prog = "libops" /\ pc = "ready" /\ todo > 0
    /\ LET out == simplify(alive, tables)
       IN  /\ tables' = out.tables
           /\ alive' = out.alive
           /\ pc' = IF out.end = "ok" THEN "ready" ELSE out.end
    /\ drawn' = NoDraws
    /\ todo' = todo - 1
    /\ UNCHANGED <<prog, calls, params, parents, seeding, threading>>

NextOps ==
    \/ /\ prog = "libops" /\ pc = "ready"
       /\ \E xs \in [1..params.popsize -> UnitDraws] :
          \E par \in {parents, <<>>} :
           /\ Len(tables.nodes) + 2 * (Len(par) + LibDeathCount(xs, params))
                  <= MaxNodesLib
           /\ \E picks \in [1..LibDeathCount(xs, params) ->
                              (0..(params.popsize - 1))
                                  \X (0..(params.popsize - 1))] :
                  OpsDeathAndParents(xs, picks, par)
    \/ /\ prog = "libops" /\ pc = "ready"
       /\ Len(tables.nodes) + 2 * Len(parents) <= MaxNodesLib
       /\ \E draws \in [1..Len(parents) ->
                          CrossoverDraws(params) \X CrossoverDraws(params)] :
              OpsBirths(draws)
    \/ OpsSimplify

SpecOps == InitOps /\ [][NextOps]_vars

\* ---- one call of crossover_and_record_edges_details
\* params and a table with the parent's two nodes and the offspring node
XoverParams ==
    {[popsize |-> 1, nsteps |-> 1, xovers |-> x, psurvival |-> F64(0),
      genome_length |-> len, simplification_interval |-> 1] :
        x \in {0, 1}, len \in 1..MaxXoverLength}

\* the offspring node of the call
XoverOffspring == 2

InitXover ==
    /\ prog = "xover"
    /\ pc = "start"
    /\ params \in XoverParams
    /\ tables = add_node(AddFounders(NewTables(params.genome_length), 2, 1), 0)
    /\ alive \in {<<Diploid(0, 1)>>, <<Diploid(1, 0)>>}
    /\ todo = 0
    /\ parents = <<>>
    /\ drawn = NoDraws
    /\ calls = <<>>
    /\ NoSeeding
    /\ NoThreading

\* crossover_and_record_edges_details(parent, offspring_node, params,
\* tables, rng) with rng producing draw
XoverCall(draw) ==
    /\ prog = "xover" /\ pc = "start"
    /\ tables' = crossover_and_record_edges_details(alive[1], XoverOffspring,
                                                    params, tables, draw)
    /\ drawn' = draw
    /\ pc' = "done"
    /\ UNCHANGED <<prog, calls, params, alive, todo, parents, seeding,
                   threading>>

NextXover == \E draw \in CrossoverDraws(params) : XoverCall(draw)

SpecXover == InitXover /\ [][NextXover]_vars

\* -------------------------------------------------------------- seeding.rs
\* main calls make_unique_seeds(options.seed, options.nreps); a second call
\* with the same arguments follows the first
SeedsParams ==
    {[initial_seed |-> s, nseeds |-> k] :
        s \in 0..MaxInitialSeed, k \in 0..MaxSeeds}

\* the values rng.sample(rseed) can return
SeedValues == 0..MaxSeedValue

InitSeeds ==
    /\ prog = "seeds"
    /\ pc = "start"
    /\ params \in SeedsParams
    /\ tables = NewTables(0)
    /\ alive = <<>>
    /\ todo = 0
    /\ parents = <<>>
    /\ drawn = NoDraws
    /\ calls = <<>>
    /\ NoSeeding
    /\ NoThreading

\* the while condition with the membership test left out
SeedTakenNever(used_seeds, repseed) == FALSE

\* used_seeds.contains(&repseed)
SeedTaken(used_seeds, repseed) == repseed \in used_seeds

\* rng.sample(rseed) of a generator that has produced pos values: the value
\* this seed's generator produced at that position before or, at a position
\* not reached before, v
Sample(pos, v) == IF pos < Len(stdrng) THEN stdrng[pos + 1] ELSE v

\* one rng.sample(rseed) into repseed
SeedsDraw(v) ==
    /\ seedcall.pos < MaxSamples
    /\ v = Sample(seedcall.pos, v)
    /\ stdrng' = IF seedcall.pos < Len(stdrng) THEN stdrng
                 ELSE Append(stdrng, v)
    /\ seedcall' = [seedcall EXCEPT !.pos = @ + 1, !.repseed = v]

\* the function up to its loop: the sampler, a generator seeded from
\* initial_seed, an empty rv and an empty used_seeds
SeedsBegin ==
    /\ prog = "seeds"
    /\ pc = "start" \/ (pc = "returned" /\ Len(returned) < 2)
    /\ seedcall' = [pos |-> 0, rv |-> <<>>, used_seeds |-> {}, repseed |-> 0]
    /\ pc' = "for"
    /\ UNCHANGED <<prog, drawn, calls, params, tables, alive, todo, parents, threading, stdrng,
                   returned>>

\* the head of an iteration of for _ in 0..nseeds: the first sample
SeedsFor(v) ==
    /\ prog = "seeds" /\ pc = "for"
    /\ Len(seedcall.rv) < params.nseeds
    /\ SeedsDraw(v)
    /\ pc' = "while"
    /\ UNCHANGED <<prog, drawn, calls, params, tables, alive, todo, parents, threading, returned>>

\* while used_seeds.contains(&repseed) { repseed = rng.sample(rseed); }
SeedsResample(v) ==
    /\ prog = "seeds" /\ pc = "while"
    /\ SeedTaken(seedcall.used_seeds, seedcall.repseed)
    /\ SeedsDraw(v)
    /\ UNCHANGED <<prog, drawn, calls, pc, params, tables, alive, todo, parents, threading, returned>>

\* the while loop is left: used_seeds.insert(repseed); rv.push(repseed)
SeedsAccept ==
    /\ prog = "seeds" /\ pc = "while"
    /\ ~SeedTaken(seedcall.used_seeds, seedcall.repseed)
    /\ seedcall' = [seedcall EXCEPT
                       !.used_seeds = @ \cup {seedcall.repseed},
                       !.rv = Append(@, seedcall.repseed)]
    /\ pc' = "for"
    /\ UNCHANGED <<prog, drawn, calls, params, tables, alive, todo, parents, threading, stdrng,
                   returned>>

\* the loop is over: rv is returned
SeedsReturn ==
    /\ prog = "seeds" /\ pc = "for"
    /\ Len(seedcall.rv) >= params.nseeds
    /\ returned' = Append(returned, seedcall.rv)
    /\ pc' = "returned"
    /\ UNCHANGED <<prog, drawn, calls, params, tables, alive, todo, parents, threading, stdrng,
                   seedcall>>

NextSeeds ==
    \/ SeedsBegin
    \/ \E v \in SeedValues : SeedsFor(v)
    \/ \E v \in SeedValues : SeedsResample(v)
    \/ SeedsAccept
    \/ SeedsReturn

SpecSeeds == InitSeeds /\ [][NextSeeds]_vars

\* ------------------------------------------------- a replicate from a seed
\* StdRng as the simulations use it: a generator whose values are a function
\* of its seed. r is the state of the generator, the seed its first state.
RngNext(r) == (5 * r + 3) % 64

RECURSIVE RngAfter(_, _)
\* the state n draws after r
RngAfter(r, n) == IF n = 0 THEN r ELSE RngAfter(RngNext(r), n - 1)

\* rng.sample(Uniform::new(0, n)) read off the state r
UniformIndex(r, n) == (r \div 8) % n

\* rng.gen::<f64>() read off the state r
UniformUnit(r) == F64((r \div 8) % UnitDen)

\* one iteration of moran's loop on (t, a): birth and death, then the
\* sort and simplification when due
MoranIteration(t, a, s, dead, replace) ==
    LET born == IF dead = replace
                THEN [end |-> "ok", tables |-> t, alive |-> a]
                ELSE IF MoranAssertOk(t, a, s, replace)
                THEN [end |-> "ok",
                      tables |-> MoranBirthTables(t, a, s, replace),
                      alive |-> MoranReplace(a, dead, NextNodeId(t))]
                ELSE [end |-> "panic", tables |-> t, alive |-> a]
    IN  IF born.end = "ok" /\ SimplifyDue(s, MoranSimplifyInterval)
        THEN SortSimplifyRemapOf(born.tables, born.alive)
        ELSE born

RECURSIVE MoranLoop(_, _, _, _, _)
\* the k iterations moran has left, the generator at r
MoranLoop(popsize, t, a, k, r) ==
    IF k = 0 THEN [end |-> "ok", tables |-> t]
    ELSE LET it == MoranIteration(t, a, k - 1,
                       UniformIndex(RngAfter(r, 1), popsize),
                       UniformIndex(RngAfter(r, 2), popsize))
         IN  IF it.end # "ok" THEN [end |-> it.end, tables |-> it.tables]
             ELSE MoranLoop(popsize, it.tables, it.alive, k - 1,
                            RngAfter(r, 2))

\* moran(popsize, nsteps, seed): "ok" and the tables it returns, or "panic"
moran(popsize, nsteps, seed) ==
    MoranLoop(popsize,
              AddFounders(NewTables(MoranGenomeLength), popsize, nsteps),
              Iota(popsize), nsteps, seed)

\* one iteration of the generation loop of overlapping_generations
OGIteration(p, t, a, s, xs, picks, coins) ==
    IF \E i \in 1..Len(xs) : PartialCmp(xs[i], p.psurvival) = "None"
    THEN [end |-> "panic", tables |-> t, alive |-> a]
    ELSE LET dead == Deaths(xs, p.psurvival, 0)
             reps == Replacements(dead, NextNodeId(t))
             t2 == RecordEdges(AddFounders(t, 2 * Len(dead), s), a, reps,
                               picks, coins, 1)
             a2 == ReplaceAlive(a, reps, 1)
         IN  IF p.simplification_interval = 0
             THEN [end |-> "panic", tables |-> t2, alive |-> a2]
             ELSE IF SimplifyDue(s, p.simplification_interval)
             THEN SortSimplifyRemapOf(t2, a2)
             ELSE [end |-> "ok", tables |-> t2, alive |-> a2]

RECURSIVE UnitSeq(_, _, _)
\* n draws of rng.gen::<f64>(), the first one draw after r, each next one
\* every draws after the one before
UnitSeq(r, every, n) ==
    IF n = 0 THEN <<>>
    ELSE Append(UnitSeq(r, every, n - 1),
                UniformUnit(RngAfter(r, every * (n - 1) + 1)))

RECURSIVE PickSeq(_, _, _)
\* n draws of rng.sample(picker), the first one draw after r, each next
\* two draws after the one before
PickSeq(r, popsize, n) ==
    IF n = 0 THEN <<>>
    ELSE Append(PickSeq(r, popsize, n - 1),
                UniformIndex(RngAfter(r, 2 * (n - 1) + 1), popsize))

RECURSIVE OGLoop(_, _, _, _, _)
\* the k iterations the generation loop has left, the generator at r: a
\* death draw per individual, then a parent pick and a gamete draw per
\* offspring node
OGLoop(p, t, a, k, r) ==
    IF k = 0 THEN [end |-> "ok", tables |-> t]
    ELSE LET xs == UnitSeq(r, 1, p.popsize)
             n == 2 * Len(Deaths(xs, p.psurvival, 0))
             picks == PickSeq(RngAfter(r, p.popsize), p.popsize, n)
             coins == UnitSeq(RngAfter(r, p.popsize + 1), 2, n)
             it == OGIteration(p, t, a, k - 1, xs, picks, coins)
         IN  IF it.end # "ok" THEN [end |-> it.end, tables |-> it.tables]
             ELSE OGLoop(p, it.tables, it.alive, k - 1,
                         RngAfter(r, p.popsize + n))

\* overlapping_generations(params, seed)
overlapping_generations(p, seed) ==
    OGLoop(p,
           AddFounders(NewTables(p.genome_length), 2 * p.popsize, p.nsteps),
           Iota(2 * p.popsize), p.nsteps, seed)

\* ------------------------------------------------------ main and its threads
\* the result of one replicate of the binary that runs
ReplicateResult(p, seed) ==
    IF p.bin = "moran" THEN moran(p.popsize, p.nsteps, seed)
    ELSE overlapping_generations(p, seed)

\* the options of a run of either binary with nreps replicates on nthreads
\* threads
MainParams ==
    {[bin |-> "moran", popsize |-> 2, nsteps |-> 2, xovers |-> 0,
      psurvival |-> F64(0), genome_length |-> MoranGenomeLength,
      simplification_interval |-> MoranSimplifyInterval,
      nreps |-> n, nthreads |-> k] :
        n \in 1..MaxReps, k \in 1..MaxThreads}
    \cup
    {[bin |-> "og", popsize |-> 1, nsteps |-> 1, xovers |-> 0,
      psurvival |-> F64(0), genome_length |-> MaxGenomeLength,
      simplification_interval |-> 1,
      nreps |-> n, nthreads |-> k] :
        n \in 1..MaxReps, k \in 1..MaxThreads}

\* what make_unique_seeds can return for nseeds = n
SeedLists(n) == {sl \in [1..n -> SeedValues] : NoDuplicates(sl)}

\* main after ProgramOptions::new(): seeds is what make_unique_seeds returned
\* or, for a single replicate, just options.seed
InitMain ==
    /\ prog = "main"
    /\ pc = "start"
    /\ params \in MainParams
    /\ tables = NewTables(0)
    /\ alive = <<>>
    /\ todo = 0
    /\ parents = <<>>
    /\ drawn = NoDraws
    /\ calls = <<>>
    /\ NoSeeding
    /\ seeds \in SeedLists(params.nreps)
    /\ workers = <<>>
    /\ files = {}
    /\ mainst = [repid |-> 0, joined |-> 0, idx |-> 0]

\* the process lives until main returns or panics
ProcessRuns == pc \notin {"done", "panic"}

\* main: run_threaded for several replicates on several threads, else the
\* replicates one after the other on the main thread
MainDispatch ==
    /\ prog = "main" /\ pc = "start"
    /\ pc' = IF params.nreps > 1 /\ params.nthreads > 1 THEN "spawn"
             ELSE "run"
    /\ UNCHANGED <<prog, drawn, calls, params, tables, alive, todo, parents, seeding,
                   threading>>

\* every worker's slice taken from the start of the list
SeedSliceFromStart(sl, from, to) == SubSeq(sl, 1, to - from)

\* seeds[from..to].to_vec()
SeedSlice(sl, from, to) == SubSeq(sl, from + 1, to)

\* Worker with every thread numbering its replicates from 0
WorkerFromZero(first_rep_id, sl) ==
    [first_rep_id |-> 0, seeds |-> sl, idx |-> 0, state |-> "running"]

\* the Arc a thread is spawned with, and the thread's progress
Worker(first_rep_id, sl) ==
    [first_rep_id |-> first_rep_id, seeds |-> sl, idx |-> 0,
     state |-> "running"]

\* reps_per_thread rounded up instead of down
reps_per_thread_up ==
    (Len(seeds) + params.nthreads - 1) \div params.nthreads

reps_per_thread == Len(seeds) \div params.nthreads

\* one iteration of for _ in 0..options.nthreads - 1
SpawnWorker ==
    /\ prog = "main" /\ pc = "spawn"
    /\ Len(workers) < params.nthreads - 1
    /\ IF mainst.repid + reps_per_thread < Len(seeds)
       THEN /\ workers' = Append(workers,
                   Worker(mainst.repid,
                          SeedSlice(seeds, mainst.repid,
                                    mainst.repid + reps_per_thread)))
            /\ mainst' = [mainst EXCEPT !.repid = @ + reps_per_thread]
            /\ pc' = pc
       ELSE /\ pc' = "panic"
            /\ UNCHANGED <<workers, mainst>>
    /\ UNCHANGED <<prog, drawn, calls, params, tables, alive, todo, parents, seeding,
                   seeds, files>>

\* the spawn after the loop: the last thread gets the rest of the seeds
SpawnLastWorker ==
    /\ prog = "main" /\ pc = "spawn"
    /\ Len(workers) = params.nthreads - 1
    /\ workers' = Append(workers,
           Worker(mainst.repid, SeedSlice(seeds, mainst.repid, Len(seeds))))
    /\ pc' = "join"
    /\ UNCHANGED <<prog, drawn, calls, params, tables, alive, todo, parents, seeding,
                   seeds, files, mainst>>

\* the seed of the iteration of run_from_seeds that w is at
ReplicateSeed(w) == w.seeds[w.idx + 1]

\* what finalise_tables_and_output writes for that iteration: the file
\* named by the replicate id, with the seed in its provenance
Output(w) ==
    [repid |-> w.first_rep_id + w.idx,
     seed |-> ReplicateSeed(w),
     tables |-> ReplicateResult(params, ReplicateSeed(w)).tables]

\* one iteration of run_from_seeds in the thread of handle h
WorkerReplicate(h) ==
    /\ prog = "main" /\ ProcessRuns
    /\ workers[h].state = "running"
    /\ workers[h].idx < Len(workers[h].seeds)
    /\ IF ReplicateResult(params, ReplicateSeed(workers[h])).end = "ok"
       THEN /\ files' = files \cup {Output(workers[h])}
            /\ workers' = [workers EXCEPT ![h].idx = @ + 1]
       ELSE /\ workers' = [workers EXCEPT ![h].state = "panicked"]
            /\ UNCHANGED files
    /\ UNCHANGED <<prog, drawn, calls, pc, params, tables, alive, todo, parents, seeding,
                   seeds, mainst>>

\* run_from_seeds and with it the thread of handle h returns
WorkerReturn(h) ==
    /\ prog = "main" /\ ProcessRuns
    /\ workers[h].state = "running"
    /\ workers[h].idx = Len(workers[h].seeds)
    /\ workers' = [workers EXCEPT ![h].state = "finished"]
    /\ UNCHANGED <<prog, drawn, calls, pc, params, tables, alive, todo, parents, seeding,
                   seeds, files, mainst>>

\* JoinWorker with a join that does not wait: a thread that still runs
\* counts as joined
JoinWorkerDetached ==
    /\ prog = "main" /\ pc = "join"
    /\ mainst.joined < Len(workers)
    /\ IF workers[mainst.joined + 1].state # "panicked"
       THEN /\ mainst' = [mainst EXCEPT !.joined = @ + 1]
            /\ pc' = pc
       ELSE /\ pc' = "panic"
            /\ UNCHANGED mainst
    /\ UNCHANGED <<prog, drawn, calls, params, tables, alive, todo, parents,
                   seeding, seeds, workers, files>>

\* one iteration of for h in handles { h.join().unwrap(); }: the join
\* waits for the thread, the unwrap panics when the thread panicked
JoinWorker ==
    /\ prog = "main" /\ pc = "join"
    /\ mainst.joined < Len(workers)
    /\ workers[mainst.joined + 1].state # "running"
    /\ IF workers[mainst.joined + 1].state = "finished"
       THEN /\ mainst' = [mainst EXCEPT !.joined = @ + 1]
            /\ pc' = pc
       ELSE /\ pc' = "panic"
            /\ UNCHANGED mainst
    /\ UNCHANGED <<prog, drawn, calls, params, tables, alive, todo, parents, seeding,
                   seeds, workers, files>>

\* every handle is joined: run_threaded and main return
ThreadedReturn ==
    /\ prog = "main" /\ pc = "join"
    /\ mainst.joined = Len(workers)
    /\ pc' = "done"
    /\ UNCHANGED <<prog, drawn, calls, params, tables, alive, todo, parents, seeding,
                   threading>>

\* the main thread as the one that runs every replicate
MainThread == [first_rep_id |-> 0, seeds |-> seeds, idx |-> mainst.idx]

\* one replicate on the main thread: an iteration of run_from_seeds(..,
\* &seeds, 0) or the else branch of main
MainReplicate ==
    /\ prog = "main" /\ pc = "run"
    /\ mainst.idx < Len(seeds)
    /\ IF ReplicateResult(params, ReplicateSeed(MainThread)).end = "ok"
       THEN /\ files' = files \cup {Output(MainThread)}
            /\ mainst' = [mainst EXCEPT !.idx = @ + 1]
            /\ pc' = pc
       ELSE /\ pc' = "panic"
            /\ UNCHANGED <<files, mainst>>
    /\ UNCHANGED <<prog, drawn, calls, params, tables, alive, todo, parents, seeding,
                   seeds, workers>>

\* the replicates of the main thread are done: main returns
MainReturn ==
    /\ prog = "main" /\ pc = "run"
    /\ mainst.idx = Len(seeds)
    /\ pc' = "done"
    /\ UNCHANGED <<prog, drawn, calls, params, tables, alive, todo, parents, seeding,
                   threading>>

NextMain ==
    \/ MainDispatch
    \/ SpawnWorker
    \/ SpawnLastWorker
    \/ \E h \in 1..Len(workers) : WorkerReplicate(h)
    \/ \E h \in 1..Len(workers) : WorkerReturn(h)
    \/ JoinWorker
    \/ ThreadedReturn
    \/ MainReplicate
    \/ MainReturn

SpecMain == InitMain /\ [][NextMain]_vars

\* --------------------------------------------- the two diploid models
InitDiploid == InitOG \/ InitLib

NextDiploid == NextOG \/ NextLib

SpecDiploid == InitDiploid /\ [][NextDiploid]_vars

\* ------------------------------------------------------------ all entries
Init == InitMoran \/ InitOG \/ InitLib \/ InitSeeds \/ InitMain

Next == NextMoran \/ NextOG \/ NextLib \/ NextSeeds \/ NextMain

Spec == Init /\ [][Next]_vars

\* ----------------------------------------------------------------- claims
\* C1: in overlapping_generations the two genome nodes of every diploid
\* individual differ, alive[2i] # alive[2i+1], in every state of a run:
\* after the founders, after every replacement and after every remap.
C1_DiploidDistinct ==
    (prog = "og" /\ pc \notin {"start", "founders", "rejected"})
        => \A i \in 0..(params.popsize - 1) :
               alive[2 * i + 1] # alive[2 * i + 2]

\* C4: moran runs to its end without a panic or failed assertion; the
\* sample list given to simplify holds no duplicate; alive has exactly
\* popsize entries; every node of the final table has time <= nsteps.
C4_MoranRunsClean ==
    prog = "moran" =>
        /\ pc # "panic"
        /\ pc # "start" => Len(alive) = params.popsize
        /\ (pc = "simplify" /\ SimplifyDue(step, MoranSimplifyInterval))
               => NoDuplicates(alive)
        /\ pc \in {"return", "done"}
               => \A i \in 1..Len(tables.nodes) :
                      tables.nodes[i] <= params.nsteps

\* a finished run with births whose last iteration simplified
C4_Witness ==
    /\ prog = "moran" /\ pc = "done"
    /\ params.popsize >= 2 /\ params.nsteps >= 2
    /\ Len(tables.edges) >= 2

\* the node ids an edge row names, and its times the right way round
EdgeTimeOk(t, e) ==
    /\ ValidId(t, e.parent) /\ ValidId(t, e.child)
    /\ NodeTime(t, e.parent) > NodeTime(t, e.child)

\* C2: every edge ever in the table of a run has a parent strictly older
\* than its child, after every add_edge and after every simplification, and
\* the assertion of moran on the new birth's time never fails.
C2_ParentOlderThanChild ==
    /\ \A i \in 1..Len(tables.edges) : EdgeTimeOk(tables, tables.edges[i])
    /\ prog = "moran" => pc # "panic"

\* a moran run whose last simplification left edges in a table that also
\* keeps an ancestor
C2_Witness ==
    /\ prog = "moran" /\ pc = "return"
    /\ params.popsize = MaxPopMoran
    /\ Len(tables.edges) >= 2
    /\ Len(tables.nodes) > params.popsize

\* the node ids of the Parents that births is about to read
ParentIds ==
    IF pc # "births" THEN {}
    ELSE UNION {{parents[i].parent0.node0, parents[i].parent0.node1,
                 parents[i].parent1.node0, parents[i].parent1.node1} :
                    i \in 1..Len(parents)}

\* the node ids the run holds outside the table and reads again
HeldIds ==
    IF prog = "lib"
    THEN UNION {{alive[i].node0, alive[i].node1} : i \in 1..Len(alive)}
         \cup ParentIds
    ELSE {alive[i] : i \in 1..Len(alive)}

\* C3: wherever an alive node id is read it is a valid index into the
\* current node table and not the null sentinel; after a simplification
\* every alive entry is the new id of its node and none maps to removed.
C3_AliveIdsValid ==
    /\ \A id \in HeldIds : ValidId(tables, id)
    /\ prog = "lib" => pc # "assert"

\* the library loop reading alive again after a simplification that kept
\* edges and renumbered the nodes
C3_Witness ==
    /\ prog = "lib" /\ pc = "births"
    /\ todo < params.nsteps
    /\ Len(parents) >= 1
    /\ Len(tables.edges) >= 1

\* C5: every edge recorded by any model has 0 <= left < right <=
\* genome_length, the edges of crossover_and_record_edges_details for a
\* drawn length of 0 included.
C5_EdgeIntervalsValid ==
    \A i \in 1..Len(tables.edges) :
        /\ 0 <= tables.edges[i].left
        /\ tables.edges[i].left < tables.edges[i].right
        /\ tables.edges[i].right <= tables.sequence_length

\* C6: make_unique_seeds(seed, k) returns exactly k pairwise distinct
\* values, whatever values the generator samples (repeats of a value
\* already used included), and two calls with the same seed and k return
\* the same vector.
C6_UniqueSeeds ==
    prog = "seeds" =>
        /\ \A c \in 1..Len(returned) :
               /\ Len(returned[c]) = params.nseeds
               /\ NoDuplicates(returned[c])
        /\ Len(returned) = 2 => returned[1] = returned[2]

\* both calls have returned two or more seeds after the generator
\* repeated a value
C6_Witness ==
    /\ prog = "seeds" /\ pc = "returned"
    /\ Len(returned) = 2
    /\ params.nseeds >= 2
    /\ Len(stdrng) > params.nseeds

\* run_threaded has spawned all its threads
AllSpawned == prog = "main" /\ Len(workers) = params.nthreads

\* how many of its seeds a thread has started a replicate for
Simulated(w) == w.idx + (IF w.state = "panicked" THEN 1 ELSE 0)

\* C8: with nthreads >= 2 the seed slices of the workers are a contiguous,
\* disjoint, in-order partition of the seed list, floor(len / nthreads)
\* seeds for each worker but the last and the rest for the last, and every
\* seed of the list is simulated exactly once, none skipped.
C8_SeedsPartitioned ==
    (AllSpawned /\ params.nthreads >= 2) =>
        /\ \A h \in 1..Len(workers) :
               /\ workers[h].first_rep_id = (h - 1) * reps_per_thread
               /\ workers[h].seeds =
                      SubSeq(seeds, workers[h].first_rep_id + 1,
                             IF h < Len(workers) THEN h * reps_per_thread
                             ELSE Len(seeds))
        /\ ~ProcessRuns =>
               \A h \in 1..Len(workers) :
                   Simulated(workers[h]) = Len(workers[h].seeds)

C10_SiblingsComplete ==
    (AllSpawned /\ ~ProcessRuns) =>
        \A h \in 1..Len(workers) :
            workers[h].state # "panicked" =>
                \A i \in 0..(Len(workers[h].seeds) - 1) :
                    \E f \in files : f.repid = workers[h].first_rep_id + i

InUnitInterval(p) == ~p.nan /\ 0 <= p.num /\ p.num < UnitDen

\* C7: a psurvival that is not a number in [0,1) (negative, >= 1 or NaN) is
\* rejected by validate before any node is created, and every value in
\* [0,1) is accepted.
C7_BadPsurvivalRejected ==
    (prog = "og" /\ pc # "start") =>
        /\ (pc = "rejected") <=> ~InUnitInterval(params.psurvival)
        /\ ~InUnitInterval(params.psurvival) => Len(tables.nodes) = 0

\* C11: in threaded mode main returns from run_threaded, and the process
\* exits successfully, only after every spawned worker has finished all of
\* its replicates and so every replicate's output is dumped; no successful
\* exit happens while a worker still runs.
C11_ExitAfterAllWorkers ==
    (prog = "main" /\ pc = "done" /\ Len(workers) > 0) =>
        /\ Len(workers) = params.nthreads
        /\ mainst.joined = Len(workers)
        /\ \A h \in 1..Len(workers) :
               /\ workers[h].state = "finished"
               /\ workers[h].idx = Len(workers[h].seeds)
               /\ \A i \in 0..(Len(workers[h].seeds) - 1) :
                      \E f \in files : f.repid = workers[h].first_rep_id + i

\* a successful exit of a run of three threads that each had a replicate
C11_Witness ==
    /\ AllSpawned /\ pc = "done"
    /\ params.nthreads = MaxThreads
    /\ \A h \in 1..Len(workers) : workers[h].idx >= 1

\* the replicate ordinals first_rep_id + idx a thread builds file names
\* from, all of them and those of the replicates it has finished
Ordinals(w) == {w.first_rep_id + i : i \in 0..(Len(w.seeds) - 1)}

OrdinalsWritten(w) == {w.first_rep_id + i : i \in 0..(w.idx - 1)}

\* the threads that run replicates: the workers or else the main thread
ReplicateThreads ==
    IF pc \in {"spawn", "join"} \/ Len(workers) > 0
    THEN {workers[h] : h \in 1..Len(workers)}
    ELSE {MainThread}

\* C12: over all workers of a run the ordinals first_rep_id + idx that name
\* the output files are exactly 0..nreps-1, each used once: no two
\* replicates, of one worker or of two, write the same file, and ordinal i
\* is the replicate run with the i-th generated seed.
C12_OrdinalsUnique ==
    prog = "main" =>
        /\ \A h, k \in 1..Len(workers) :
               h # k => Ordinals(workers[h]) \cap Ordinals(workers[k]) = {}
        /\ \A w \in ReplicateThreads :
               \A i \in 0..(Len(w.seeds) - 1) :
                   /\ w.first_rep_id + i < params.nreps
                   /\ w.seeds[i + 1] = seeds[w.first_rep_id + i + 1]
        /\ AllSpawned =>
               UNION {Ordinals(w) : w \in ReplicateThreads}
                   = 0..(params.nreps - 1)
        /\ \A f, g \in files : f.repid = g.repid => f = g
        /\ {f.repid : f \in files}
               = UNION {OrdinalsWritten(w) : w \in ReplicateThreads}
        /\ pc = "done" => {f.repid : f \in files} = 0..(params.nreps - 1)

\* a finished run whose last thread took the remainder of the seed list
C12_Witness ==
    /\ AllSpawned /\ pc = "done"
    /\ params.nthreads >= 2
    /\ params.nreps % params.nthreads # 0
    /\ Cardinality(files) = params.nreps

\* the positions in calls of the calls of c
CallsOf(c) == {i \in 1..Len(calls) : calls[i] = c}

\* C13: for every replicate, of haploid_moran and of overlapping_generations,
\* build_index is called exactly once, after the last mutation of the table
\* (add_provenance is the last one) and before dump.
C13_IndexBuiltOnce ==
    (prog \in {"moran", "og"} /\ pc = "done") =>
        /\ Cardinality(CallsOf("build_index")) = 1
        /\ Cardinality(CallsOf("dump")) = 1
        /\ \A b \in CallsOf("build_index") :
               /\ \A m \in CallsOf("add_provenance") : m < b
               /\ \A d \in CallsOf("dump") : b < d

\* C14: in a moran step whose draws are dead == replace, the birth-death
\* part of the step adds no node and no edge and leaves every entry of
\* alive as it was.
C14_SelfReplacementNoOp ==
    [][(prog = "moran" /\ pc = "birth" /\ drawn'.dead = drawn'.replace)
           => (/\ pc' = "simplify"
               /\ tables'.nodes = tables.nodes
               /\ tables'.edges = tables.edges
               /\ alive' = alive)]_vars

\* a self-replacement in a population of several, after an earlier birth
C14_Witness ==
    /\ prog = "moran" /\ pc = "simplify"
    /\ params.popsize >= 2
    /\ drawn.dead = drawn.replace
    /\ Len(tables.edges) >= 1

\* C15: in a moran step with dead != replace, the birth-death part adds
\* exactly one node, with the current step as its time, and exactly one
\* edge, with left 0, right the genome length, parent the node slot replace
\* held before the step and child the new node; it sets alive[dead] to the
\* new node and leaves every other slot of alive as it was.
C15_BirthReplacesDead ==
    [][(prog = "moran" /\ pc = "birth" /\ drawn'.dead # drawn'.replace)
           => (/\ pc' = "simplify"
               /\ tables'.nodes = Append(tables.nodes, step)
               /\ tables'.edges =
                      Append(tables.edges,
                             [left |-> 0, right |-> tables.sequence_length,
                              parent |-> alive[drawn'.replace + 1],
                              child |-> Len(tables.nodes)])
               /\ Len(alive') = Len(alive)
               /\ \A i \in 1..Len(alive) :
                      alive'[i] = IF i = drawn'.dead + 1
                                  THEN Len(tables.nodes) ELSE alive[i])]_vars

\* a birth from a parent that was itself born in the run, in a population
\* of three
C15_Witness ==
    /\ prog = "moran" /\ pc = "simplify"
    /\ params.popsize = MaxPopMoran
    /\ drawn.dead # drawn.replace
    /\ Len(tables.edges) >= 2
    /\ tables.edges[Len(tables.edges)].parent >= params.popsize

\* the node ids alive holds
AliveNodes ==
    IF prog = "lib"
    THEN UNION {{alive[i].node0, alive[i].node1} : i \in 1..Len(alive)}
    ELSE {alive[i] : i \in 1..Len(alive)}

\* the rows the step appends to the edge table
NewEdges == (Len(tables.edges) + 1)..Len(tables'.edges)

\* the part of a step that records its edges: the binary's loop body, the
\* library's births
RecordsEdges ==
    (prog = "og" /\ pc = "reproduce") \/ (prog = "lib" /\ pc = "births")

\* C16: the parent of every edge added in an overlapping-generations step is
\* a node that was alive at the start of the step, never a node created in
\* the step, in whatever order the replacements are processed: in the
\* binary's loop and in the library's death_and_parents followed by births.
C16_ParentsFromSnapshot ==
    [][/\ (prog = "lib" /\ pc = "deaths") => alive' = alive
       /\ RecordsEdges =>
              \A i \in NewEdges :
                  /\ tables'.edges[i].parent \in AliveNodes
                  /\ tables'.edges[i].parent < Len(tables.nodes)
                  /\ tables'.edges[i].child >= Len(tables.nodes)]_vars

\* births of the library where the second birth's first parent is the
\* individual the first birth has already replaced
C16_Witness ==
    /\ prog = "lib" /\ pc = "simplify"
    /\ Len(parents) >= 2
    /\ drawn.picks[2][1] = parents[1].index
    /\ Len(tables.edges) >= 4

\* C17: with psurvival == 0 every individual dies in every step of
\* overlapping_generations and is replaced by new nodes, whatever its
\* uniform draw in [0,1), a draw of 0 included: after the reproduction part
\* of a step no alive node is older than the step.
C17_AllReplacedAtZero ==
    (/\ prog \in {"og", "lib"} /\ pc = "simplify"
     /\ ~params.psurvival.nan /\ params.psurvival.num = 0)
        => \A id \in AliveNodes : NodeTime(tables, id) <= step

\* the draw x of an individual does not exceed psurvival
Survives(x) == PartialCmp(x, params.psurvival) # "Greater"

\* C18: in the reproduction part of an overlapping-generations step every
\* individual whose uniform draw does not exceed psurvival holds the same
\* two node ids after it as before; only the slots of the individuals in
\* replacements (binary) or in parents (library births) are written.
C18_SurvivorsKeepNodes ==
    [][/\ (prog = "og" /\ pc = "reproduce") =>
              /\ Len(alive') = Len(alive)
              /\ \A i \in 0..(params.popsize - 1) :
                     Survives(drawn'.xs[i + 1]) =>
                         /\ alive'[2 * i + 1] = alive[2 * i + 1]
                         /\ alive'[2 * i + 2] = alive[2 * i + 2]
       /\ (prog = "lib" /\ pc = "deaths") => alive' = alive
       /\ (prog = "lib" /\ pc = "births") =>
              /\ Len(alive') = Len(alive)
              /\ \A i \in 0..(params.popsize - 1) :
                     (\/ Survives(drawn.xs[i + 1])
                      \/ \A k \in 1..Len(parents) : parents[k].index # i)
                         => alive'[i + 1] = alive[i + 1]]_vars

\* the binary after a step in which the first of two individuals survived
\* and the second was replaced
C18_Witness ==
    /\ prog = "og" /\ pc = "simplify"
    /\ params.popsize = 2
    /\ Survives(drawn.xs[1]) /\ ~Survives(drawn.xs[2])
    /\ alive[1] = 0 /\ alive[2] = 1
    /\ alive[3] >= 4

\* the strand the coin chose and the other one
FirstStrand == IF BelowHalf(drawn.x) THEN alive[1].node1 ELSE alive[1].node0

SecondStrand == IF BelowHalf(drawn.x) THEN alive[1].node0 ELSE alive[1].node1

\* C19: for strictly positive interarrival lengths the edges that
\* crossover_and_record_edges_details records for an offspring node tile
\* the genome in emission order: the first starts at 0, each next one
\* starts where the one before ends, the last ends at genome_length; every
\* child is the offspring node and the parents alternate between the
\* parent's two nodes from the strand the coin chose; with xovers == 0
\* exactly one edge [0, genome_length) of the chosen strand is recorded.
C19_CrossoverTiles ==
    (/\ prog = "xover" /\ pc = "done"
     /\ \A k \in 1..Len(drawn.lens) : drawn.lens[k] > 0)
        => LET E == tables.edges
           IN  /\ Len(E) >= 1
               /\ E[1].left = 0
               /\ E[Len(E)].right = params.genome_length
               /\ \A i \in 1..(Len(E) - 1) : E[i + 1].left = E[i].right
               /\ \A i \in 1..Len(E) :
                      /\ E[i].child = XoverOffspring
                      /\ E[i].parent = IF i % 2 = 1 THEN FirstStrand
                                       ELSE SecondStrand
               /\ params.xovers = 0 => Len(E) = 1
               /\ params.xovers # 0 => Len(E) = Len(drawn.lens)

\* a call that recorded three edges, back on the first strand
C19_Witness ==
    /\ prog = "xover" /\ pc = "done"
    /\ params.xovers # 0
    /\ \A k \in 1..Len(drawn.lens) : drawn.lens[k] > 0
    /\ Len(tables.edges) = 3
    /\ tables.edges[3].parent = tables.edges[1].parent
    /\ tables.edges[2].parent # tables.edges[1].parent

\* the edges of t with child o, in the order they were recorded
OffspringEdges(t, o) == SelectSeq(t.edges, LAMBDA e : e.child = o)

\* the individual at parent_index as the library's Diploid
ParentDiploid(a, parent_index) ==
    Diploid(a[2 * parent_index + 1], a[2 * parent_index + 2])

\* C20: in the overlapping_generations binary every offspring node gets its
\* genome through the recombination model: the edges a step records for an
\* offspring node are those crossover_and_record_edges_details records for
\* the same parent, offspring node, parameters and draws, several
\* alternating edges when xovers > 0 and one full-genome edge only when
\* xovers == 0.
C20_EdgesByRecombination ==
    [][(prog = "og" /\ pc = "reproduce" /\ pc' = "simplify") =>
           \A d \in 1..Len(drawn'.picks) :
               \A draw \in CrossoverDraws(params) :
                   draw.x = drawn'.coins[d] =>
                       OffspringEdges(tables', Len(tables.nodes) + d - 1)
                           = crossover_and_record_edges_details(
                                 ParentDiploid(alive, drawn'.picks[d]),
                                 Len(tables.nodes) + d - 1, params,
                                 NewTables(params.genome_length), draw).edges]_vars

\* C21: in the binary's death loop and in diploid::death_and_parents a
\* comparison of the draw with a NaN psurvival aborts the run: no run goes
\* on past a death draw as if it had been a survival or a death.
C21_NaNDrawAborts ==
    (/\ prog \in {"og", "lib"}
     /\ params.psurvival.nan
     /\ params.nsteps >= 1)
        => pc \notin {"births", "simplify", "return", "done"}

\* C22: in every run with nsteps >= 1, of moran and of
\* overlapping_generations with an interval >= 1, the reproduction of the
\* last step (step 0) is followed by a sort and a simplification against
\* the final alive with the id map applied to alive, and then the loop is
\* left: the table handed to finalise_tables_and_output holds no node or
\* edge added since that simplification.
C22_FinalSimplify ==
    [][(/\ prog \in {"moran", "og"}
        /\ pc = "simplify" /\ step = 0
        /\ prog = "og" => params.simplification_interval >= 1)
           => LET out == SimplifyOutput(full_sort(tables), alive)
              IN  /\ pc' = "return"
                  /\ tables' = out.tables
                  /\ alive' = RemapAlive(alive, out.idmap)]_vars

\* s is a multiple of interval (0 is the only multiple of 0)
MultipleOf(s, interval) == \E k \in 0..s : s = k * interval

\* C23: in overlapping_generations, for every simplification_interval the
\* option parsing accepts, 0 and values above nsteps included, the
\* generation loop does not abort on the interval test, and it sorts,
\* simplifies and remaps exactly at the steps that are a multiple of the
\* interval: at the other steps the table and alive go on unchanged.
C23_SimplifyOnInterval ==
    [][(prog = "og" /\ pc = "simplify") =>
           IF MultipleOf(step, params.simplification_interval)
           THEN LET out == SortSimplifyRemapOf(tables, alive)
                IN  /\ tables' = out.tables
                    /\ alive' = out.alive
                    /\ (pc' = "panic") <=> (out.end # "ok")
           ELSE /\ pc' # "panic"
                /\ tables' = tables
                /\ alive' = alive]_vars

\* C25: the assertion repid + reps_per_thread < seeds.len() in the spawning
\* loop of run_threaded never fails for nreps >= 2 and nthreads >= 2,
\* whether or not nthreads divides nreps and also when nthreads exceeds
\* nreps, and the slices repid..repid + reps_per_thread and
\* repid..seeds.len() lie within the seed list.
C25_SpawnAssertHolds ==
    (prog = "main" /\ pc = "spawn") =>
        /\ params.nreps >= 2 /\ params.nthreads >= 2
        /\ mainst.repid = Len(workers) * reps_per_thread
        /\ mainst.repid <= Len(seeds)
        /\ Len(workers) < params.nthreads - 1 =>
               /\ mainst.repid + reps_per_thread < Len(seeds)
               /\ mainst.repid <= mainst.repid + reps_per_thread
        /\ \A h \in 1..Len(workers) :
               Len(workers[h].seeds) = reps_per_thread

\* the last spawn of a run with more threads than replicates
C25_Witness ==
    /\ prog = "main" /\ pc = "spawn"
    /\ params.nthreads > params.nreps
    /\ Len(workers) = params.nthreads - 1

\* C24: from a population of Diploids with pairwise distinct valid node
\* ids, every sequence of death_and_parents, births and simplify keeps
\* node0 # node1 for every alive Diploid (no two alive nodes are the same),
\* and none of the three assertions of diploid::simplify fails.
C24_LibDiploidsDistinct ==
    prog \in {"lib", "libops"} =>
        /\ pc # "assert"
        /\ \A i \in 1..Len(alive) : alive[i].node0 # alive[i].node1
        /\ \A i, j \in 1..Len(alive) :
               i # j => {alive[i].node0, alive[i].node1}
                            \cap {alive[j].node0, alive[j].node1} = {}

\* two individuals, renumbered by a simplification that kept edges, with
\* an operation still to come
C24_Witness ==
    /\ prog = "libops" /\ pc = "ready"
    /\ params.popsize = 2
    /\ Len(tables.edges) >= 2
    /\ \A i \in 1..Len(alive) : alive[i].node0 < 4 /\ alive[i].node1 < 4
    /\ todo >= 1

====
